---- MODULE Spec2Model ----
(***************************************************************************)
(* A model of the static-file HTTP server of this repository:              *)
(*   - the event-loop server (server_v3.py): selector loop, per-connection *)
(*     DataProvider buffer, HTTPProcessor drain loop, RouteMatcher,        *)
(*     200/404 responder;                                                  *)
(*   - the sequential server (server_v1.py): HTTPSession.handle;           *)
(*   - HTTPParser.parse_message (http_parser.py is not part of the source  *)
(*     tree; it is modelled from the specification sections 4.1 and 6 and  *)
(*     from tests/test_http_parser.py).                                    *)
(*                                                                         *)
(* Byte strings are sequences of one-byte symbols.  The program's string   *)
(* constants are kept byte for byte where they only name files ("html",    *)
(* "/index.html", "None"); the tokens that travel in request streams are   *)
(* abbreviated to keep streams short: "Connection" is the two bytes C n,   *)
(* "Content-Length" is C l, "keep-alive" is k a, the method is one byte    *)
(* and the version is one byte.  Case folding, whitespace splitting, CRLF  *)
(* line splitting and decimal parsing are all computed on the bytes.       *)
(***************************************************************************)
EXTENDS Integers, Sequences, FiniteSets, TLC

(***************************************************************************)
(* Bytes                                                                   *)
(***************************************************************************)
SP == "SP"
CR == "CR"
LF == "LF"
COLON == ":"
CRLF == <<CR, LF>>
HeaderTerminator == <<CR, LF, CR, LF>>
Whitespace == {SP, CR, LF}
Digits == {"0", "1", "2", "3", "4", "5", "6", "7", "8", "9"}

DigitValue(ch) ==
    CASE ch = "0" -> 0 [] ch = "1" -> 1 [] ch = "2" -> 2 [] ch = "3" -> 3
      [] ch = "4" -> 4 [] ch = "5" -> 5 [] ch = "6" -> 6 [] ch = "7" -> 7
      [] ch = "8" -> 8 [] ch = "9" -> 9

\* str.lower() on one byte: the upper-case letters of the model's alphabet.
LowerByte(ch) ==
    CASE ch = "C" -> "c" [] ch = "N" -> "n" [] ch = "L" -> "l"
      [] ch = "K" -> "k" [] ch = "A" -> "a" [] ch = "X" -> "x"
      [] OTHER -> ch

lower(s) == [i \in 1..Len(s) |-> LowerByte(s[i])]

Min(S) == CHOOSE m \in S : \A n \in S : m <= n

\* s[from:] of Python (from is a 0-based offset, clipped to the length).
Drop(s, k) == IF k >= Len(s) THEN <<>> ELSE SubSeq(s, k + 1, Len(s))

\* s[:k] of Python.
Take(s, k) == IF k >= Len(s) THEN s ELSE SubSeq(s, 1, k)

\* s.startswith(p)
startswith(s, p) == Len(p) <= Len(s) /\ SubSeq(s, 1, Len(p)) = p

\* s.find(pat): the 1-based index of the first occurrence, 0 when absent.
find(s, pat) ==
    LET hits == {i \in 1..(Len(s) + 1) :
                    i + Len(pat) - 1 <= Len(s) /\ SubSeq(s, i, i + Len(pat) - 1) = pat}
    IN IF hits = {} THEN 0 ELSE Min(hits)

\* pat in s
contains(s, pat) == find(s, pat) # 0

\* s.split(sep): the pieces between the occurrences of sep, left to right.
RECURSIVE split(_, _)
split(s, sep) ==
    LET i == find(s, sep)
    IN IF i = 0 THEN <<s>>
       ELSE <<SubSeq(s, 1, i - 1)>> \o split(Drop(s, i - 1 + Len(sep)), sep)

\* s.strip(): leading and trailing whitespace removed.
RECURSIVE lstrip(_)
lstrip(s) == IF s # <<>> /\ Head(s) \in Whitespace THEN lstrip(Tail(s)) ELSE s

RECURSIVE rstrip(_)
rstrip(s) ==
    IF s # <<>> /\ s[Len(s)] \in Whitespace THEN rstrip(SubSeq(s, 1, Len(s) - 1)) ELSE s

strip(s) == rstrip(lstrip(s))

\* s.split() with no argument: the maximal runs of non-whitespace bytes.
RECURSIVE split_whitespace(_)
split_whitespace(s) ==
    LET t == lstrip(s)
    IN IF t = <<>> THEN <<>>
       ELSE LET ends == {i \in 1..Len(t) : t[i] \in Whitespace}
                e == IF ends = {} THEN Len(t) + 1 ELSE Min(ends)
            IN <<SubSeq(t, 1, e - 1)>> \o split_whitespace(Drop(t, e - 1))

\* A non-negative decimal integer: one or more digits and nothing else.
IsNonNegativeInteger(s) == s # <<>> /\ \A i \in 1..Len(s) : s[i] \in Digits

RECURSIVE ToInt(_)
ToInt(s) ==
    IF s = <<>> THEN 0 ELSE 10 * ToInt(SubSeq(s, 1, Len(s) - 1)) + DigitValue(s[Len(s)])

\* str(n) for the lengths the model prints.
RECURSIVE ToStr(_)
ToStr(n) ==
    LET d == <<"0", "1", "2", "3", "4", "5", "6", "7", "8", "9">>
    IN IF n < 10 THEN <<d[n + 1]>> ELSE ToStr(n \div 10) \o <<d[(n % 10) + 1]>>

RECURSIVE Flatten(_)
Flatten(ss) == IF ss = <<>> THEN <<>> ELSE Head(ss) \o Flatten(Tail(ss))

(***************************************************************************)
(* HTTPParser.parse_message (specification 4.1, 6; tests/test_http_parser) *)
(***************************************************************************)
ContentLengthName == <<"c", "l">>
ConnectionName == <<"c", "n">>
KeepAliveToken == <<"k", "a">>

NoMessage ==
    [method |-> <<>>, url |-> <<>>, version |-> <<>>, headers |-> <<>>, body |-> <<>>]

IncompleteMessage == [kind |-> "incomplete", message |-> NoMessage, consumed |-> 0]
InvalidMessage == [kind |-> "invalid", message |-> NoMessage, consumed |-> 0]

\* One "name: value" line: the name lower-cased, the value stripped.
parse_header_line(line) ==
    LET c == find(line, <<COLON>>)
    IN [name |-> lower(strip(SubSeq(line, 1, c - 1))), value |-> strip(Drop(line, c))]

\* headers.get(name, default): the last line of that name wins.
headers_get(headers, name, default) ==
    LET hits == {i \in 1..Len(headers) : headers[i].name = name}
    IN IF hits = {} THEN default
       ELSE headers[CHOOSE i \in hits : \A j \in hits : j <= i].value

has_header(headers, name) == \E i \in 1..Len(headers) : headers[i].name = name

\* Variant of parse_body whose consumed count leaves the body out.
parse_body_head_only(data, sep, start, headers) ==
    IF has_header(headers, ContentLengthName)
       /\ ~IsNonNegativeInteger(headers_get(headers, ContentLengthName, <<>>))
      THEN InvalidMessage
    ELSE IF Len(data) < sep + 3 + ToInt(headers_get(headers, ContentLengthName, <<>>))
      THEN IncompleteMessage
    ELSE [kind |-> "message",
          message |-> [method |-> start[1], url |-> start[2], version |-> start[3],
                       headers |-> headers,
                       body |-> Take(Drop(data, sep + 3),
                                     ToInt(headers_get(headers, ContentLengthName, <<>>)))],
          consumed |-> sep + 3]

\* Variant of parse_body that does not wait for the whole body.
parse_body_no_wait(data, sep, start, headers) ==
    IF has_header(headers, ContentLengthName)
       /\ ~IsNonNegativeInteger(headers_get(headers, ContentLengthName, <<>>))
      THEN InvalidMessage
    ELSE [kind |-> "message",
          message |-> [method |-> start[1], url |-> start[2], version |-> start[3],
                       headers |-> headers,
                       body |-> Take(Drop(data, sep + 3),
                                     ToInt(headers_get(headers, ContentLengthName, <<>>)))],
          consumed |-> sep + 3
                       + Len(Take(Drop(data, sep + 3),
                                  ToInt(headers_get(headers, ContentLengthName, <<>>))))]

\* The header block is well formed: the declared body length decides.
parse_body(data, sep, start, headers) ==
    IF has_header(headers, ContentLengthName)
       /\ ~IsNonNegativeInteger(headers_get(headers, ContentLengthName, <<>>))
      THEN InvalidMessage
    ELSE IF Len(data) < sep + 3 + ToInt(headers_get(headers, ContentLengthName, <<>>))
      THEN IncompleteMessage
    ELSE [kind |-> "message",
          message |-> [method |-> start[1], url |-> start[2], version |-> start[3],
                       headers |-> headers,
                       body |-> SubSeq(data, sep + 4,
                                       sep + 3 + ToInt(headers_get(headers,
                                                                   ContentLengthName,
                                                                   <<>>)))],
          consumed |-> sep + 3 + ToInt(headers_get(headers, ContentLengthName, <<>>))]

\* Variant of parse_head that skips the header lines without a colon and
\* leaves the Content-Length to the body stage only when the body has arrived.
parse_head_lenient(data, sep, start, hlines) ==
    IF Len(start) # 3 THEN InvalidMessage
    ELSE IF Len(data) < sep + 4 THEN IncompleteMessage
    ELSE parse_body(data, sep, start,
                    [i \in 1..Len(SelectSeq(hlines, LAMBDA l : contains(l, <<COLON>>))) |->
                        parse_header_line(SelectSeq(hlines,
                                                    LAMBDA l : contains(l, <<COLON>>))[i])])

\* The start line and the header lines of a block that ends at sep.
parse_head(data, sep, start, hlines) ==
    IF Len(start) # 3 THEN InvalidMessage
    ELSE IF \E i \in 1..Len(hlines) : ~contains(hlines[i], <<COLON>>) THEN InvalidMessage
    ELSE parse_body(data, sep, start,
                    [i \in 1..Len(hlines) |-> parse_header_line(hlines[i])])

parse_lines(data, sep, lines) ==
    parse_head(data, sep, split_whitespace(Head(lines)), Tail(lines))

parse_at(data, sep) ==
    IF sep = 0 THEN IncompleteMessage
    ELSE parse_lines(data, sep, split(SubSeq(data, 1, sep - 1), CRLF))

\* HTTPParser.parse_message(data) -> (message, consumed), or one of the two
\* exceptions.  sep is the index of the first header terminator.
parse_message(data) == parse_at(data, find(data, HeaderTerminator))

(***************************************************************************)
(* Routing table, file system, responses                                   *)
(***************************************************************************)
\* ServerConfig.routes[listen_ports[0]]: path prefix -> root, in insertion order.
Routes ==
    << [path |-> <<"/", "a">>, root |-> <<"s">>],
       [path |-> <<"/", "a", "b">>, root |-> <<"t">>] >>

\* Python's None and a str, as one value.
None == [none |-> TRUE, value |-> <<>>]
Some(v) == [none |-> FALSE, value |-> v]

\* f"{root}": None formats as the four bytes "None".
format(v) == IF v.none THEN <<"N", "o", "n", "e">> ELSE v.value

DefaultRoot == <<"h", "t", "m", "l">>
IndexUrl == <<"/", "i", "n", "d", "e", "x", ".", "h", "t", "m", "l">>

\* The routing table of the bound port and the files on disk are fixed for a
\* run of the server.
VARIABLES
    routes,      \* self.config.routes[self.config.listen_ports[0]]
    files        \* the files open(path, "rb") can read, with their contents

\* The files of the runs that do not vary the file system.
FileSystem ==
    { [path |-> DefaultRoot \o IndexUrl, body |-> <<"x", "y">>],
      [path |-> <<"s", "/", "a">>, body |-> <<"z">>] }

readable(path) == \E f \in files : f.path = path
read(path) == (CHOOSE f \in files : f.path = path).body

\* Variant of match_location that keeps the first matching entry.
RECURSIVE match_loop_first(_, _, _, _)
match_loop_first(locations, uri, matched_location, longest_prefix) ==
    IF locations = <<>> THEN matched_location
    ELSE IF startswith(uri, Head(locations).path) /\ longest_prefix < 0
      THEN match_loop_first(Tail(locations), uri, Some(Head(locations).root),
                            Len(Head(locations).path))
      ELSE match_loop_first(Tail(locations), uri, matched_location, longest_prefix)

\* Variant of match_location without the length test: the last matching
\* entry wins.
RECURSIVE match_loop_last(_, _, _, _)
match_loop_last(locations, uri, matched_location, longest_prefix) ==
    IF locations = <<>> THEN matched_location
    ELSE IF startswith(uri, Head(locations).path)
      THEN match_loop_last(Tail(locations), uri, Some(Head(locations).root),
                           Len(Head(locations).path))
      ELSE match_loop_last(Tail(locations), uri, matched_location, longest_prefix)

RECURSIVE match_loop(_, _, _, _)
match_loop(locations, uri, matched_location, longest_prefix) ==
    IF locations = <<>> THEN matched_location
    ELSE LET path == Head(locations).path
             root_dir == Head(locations).root
         IN IF startswith(uri, path) /\ Len(path) > longest_prefix
              THEN match_loop(Tail(locations), uri, Some(root_dir), Len(path))
              ELSE match_loop(Tail(locations), uri, matched_location, longest_prefix)

match_location(locations, uri) == match_loop(locations, uri, None, 0 - 1)

Msg404 == <<"4", "0", "4", SP, "N", "o", "t", SP, "F", "o", "u", "n", "d">>

NoResponse ==
    [status |-> "", content_length |-> <<>>, content_type |-> "",
     connection |-> "", body |-> <<>>]

\* The bytes sendall is given, kept as their parts: status line, the headers
\* in the order written, body.
Response200(body, keep_alive) ==
    [status |-> "HTTP/1.1 200 OK", content_length |-> ToStr(Len(body)),
     content_type |-> "text/plain",
     connection |-> IF keep_alive THEN "keep-alive" ELSE "", body |-> body]

Response404 ==
    [status |-> "HTTP/1.1 404 Not Found", content_length |-> ToStr(Len(Msg404)),
     content_type |-> "text/plain", connection |-> "", body |-> Msg404]

\* "keep-alive" in request.headers.get("connection", "").lower()
keep_alive(request) ==
    contains(lower(headers_get(request.headers, ConnectionName, <<>>)), KeepAliveToken)

(***************************************************************************)
(* What a handler did to its socket, in program order                      *)
(***************************************************************************)
Entry(op, site, url, ka, n, ok, resp) ==
    [op |-> op, site |-> site, url |-> url, ka |-> ka, n |-> n, ok |-> ok, resp |-> resp]

\* get_one_http_message returned a request (n bytes were removed for it).
Request(request, n) ==
    Entry("request", "parse", request.url, keep_alive(request), n, TRUE, NoResponse)

\* sock.sendall(bytes): ok is FALSE when the call raised.
Send(site, resp, ok) == Entry("send", site, <<>>, FALSE, 0, ok, resp)
Unregister(site) == Entry("unregister", site, <<>>, FALSE, 0, TRUE, NoResponse)
Close(site) == Entry("close", site, <<>>, FALSE, 0, TRUE, NoResponse)

(***************************************************************************)
(* DataProvider, HTTPProcessor                                             *)
(***************************************************************************)
\* Variant of the setter that assigns: self._data = chunk
data_replace(data, chunk) == chunk

\* DataProvider.data setter: self._data += chunk
data_append(data, chunk) == data \o chunk

\* Variant of reduce_data that is off by one: self._data = self._data[size + 1:]
reduce_data_one_more(data, size) == Drop(data, size + 1)

\* Variant of reduce_data that keeps the last byte: self._data = self._data[size - 1:]
reduce_data_one_less(data, size) == Drop(data, size - 1)

\* DataProvider.reduce_data: self._data = self._data[size:]
reduce_data(data, size) == Drop(data, size)

\* HTTPProcessor.get_one_http_message: the message or None, and the buffer
\* afterwards; `raised` names the exception the except clause swallowed.
returned(data, r) ==
    IF r.kind = "message"
      THEN [some |-> TRUE, message |-> r.message, consumed |-> r.consumed,
            data |-> reduce_data(data, r.consumed), raised |-> "none"]
      ELSE [some |-> FALSE, message |-> NoMessage, consumed |-> 0,
            data |-> data, raised |-> r.kind]

get_one_http_message(data) == returned(data, parse_message(data))

(***************************************************************************)
(* server_v3: Server._send_404, Server._handle_request                     *)
(***************************************************************************)
\* What the environment does to one readiness event: which call raises.
\*   getpeername: sock.getpeername() raises OSError
\*   recv: "data" | "empty" (b"") | "reset" (ConnectionResetError) | "error"
\*         (any other OSError)
\*   send: the k-th sendall of a 200 response in this event raises (0: none)
\*   send404: the sendall inside _send_404 raises
NoFault == [getpeername |-> FALSE, recv |-> "data", send |-> 0, send404 |-> FALSE]

\* The result of a handler: the buffer, the socket operations in order,
\* whether the socket is still open and registered, whether an exception left
\* the handler, and why the drain loop ended.
Result(data, log, open, raised, end) ==
    [data |-> data, log |-> log, open |-> open, raised |-> raised, end |-> end]

\* except Exception: self._send_404(sock); unregister; close; return
except_404(data, log, fault) ==
    IF fault.send404
      THEN Result(data, log \o <<Send("404", Response404, FALSE)>>, TRUE, TRUE, "raised")
      ELSE Result(data,
                  log \o <<Send("404", Response404, TRUE), Unregister("except"),
                           Close("except")>>,
                  FALSE, FALSE, "except")

\* root = 'html'; if url == "/": url = "/index.html" else: root = match_location(...)
\* file_path = f"{root}{url}"
file_path(url) ==
    IF url = <<"/">> THEN DefaultRoot \o IndexUrl
    ELSE format(match_location(routes, url)) \o url

RECURSIVE _handle_request(_, _, _, _)

\* Variant of respond with `if request := ...` in place of `while`: the handler
\* returns after the first 200 response of a readiness event.
respond_once(got, path, log, fault, sends) ==
    IF ~readable(path) THEN except_404(got.data, log, fault)
    ELSE IF ~keep_alive(got.message)
      THEN Result(got.data,
                  log \o <<Unregister("not_keepalive"), Close("not_keepalive")>>,
                  FALSE, FALSE, "not_keepalive")
    ELSE IF fault.send = sends + 1
      THEN except_404(got.data,
                      log \o <<Send("200", Response200(read(path), TRUE), FALSE)>>,
                      fault)
    ELSE Result(got.data,
                log \o <<Send("200", Response200(read(path), TRUE), TRUE)>>,
                TRUE, FALSE, "incomplete")

\* Variant of respond without the `return` after sock.close(): the handler
\* goes on to sendall on the socket it closed, which raises, and so does the
\* sendall of _send_404.
respond_no_return(got, path, log, fault, sends) ==
    IF ~readable(path) THEN except_404(got.data, log, fault)
    ELSE IF ~keep_alive(got.message)
      THEN Result(got.data,
                  log \o <<Unregister("not_keepalive"), Close("not_keepalive"),
                           Send("200", Response200(read(path), FALSE), FALSE),
                           Send("404", Response404, FALSE)>>,
                  FALSE, TRUE, "raised")
    ELSE IF fault.send = sends + 1
      THEN except_404(got.data,
                      log \o <<Send("200", Response200(read(path), TRUE), FALSE)>>,
                      fault)
    ELSE _handle_request(got.data,
                         log \o <<Send("200", Response200(read(path), TRUE), TRUE)>>,
                         fault, sends + 1)

\* Lines 167-192: the try block for one request, whose file is `path`; log
\* already holds the request.
respond(got, path, log, fault, sends) ==
    IF ~readable(path) THEN except_404(got.data, log, fault)
    ELSE IF ~keep_alive(got.message)
      THEN Result(got.data,
                  log \o <<Unregister("not_keepalive"), Close("not_keepalive")>>,
                  FALSE, FALSE, "not_keepalive")
    ELSE IF fault.send = sends + 1
      THEN except_404(got.data,
                      log \o <<Send("200", Response200(read(path), TRUE), FALSE)>>,
                      fault)
    ELSE _handle_request(got.data,
                         log \o <<Send("200", Response200(read(path), TRUE), TRUE)>>,
                         fault, sends + 1)

\* Lines 154-165: the loop condition and the file path of the request.
loop_body(got, log, fault, sends) ==
    IF ~got.some THEN Result(got.data, log, TRUE, FALSE, got.raised)
    ELSE respond(got, file_path(got.message.url),
                 log \o <<Request(got.message, got.consumed)>>, fault, sends)

\* Server._handle_request(sock, data_provider): data is the buffer, log the
\* socket operations so far, sends the number of 200 responses sent so far.
_handle_request(data, log, fault, sends) ==
    loop_body(get_one_http_message(data), log, fault, sends)

(***************************************************************************)
(* Request streams a client sends                                          *)
(***************************************************************************)
\* The wire format of section 6: start line, "name: value" lines, blank line,
\* body.  m.headers holds the names as the client writes them.
RECURSIVE header_block(_)
header_block(headers) ==
    IF headers = <<>> THEN <<>>
    ELSE Head(headers).name \o <<COLON, SP>> \o Head(headers).value \o CRLF
         \o header_block(Tail(headers))

request_bytes(m) ==
    m.method \o <<SP>> \o m.url \o <<SP>> \o m.version \o CRLF
    \o header_block(m.headers) \o CRLF \o m.body

ConnectionKeepAlive == [name |-> <<"C", "n">>, value |-> <<"k", "a">>]
ContentLength(n) == [name |-> <<"C", "l">>, value |-> ToStr(n)]

Get(url, headers) ==
    [method |-> <<"G">>, url |-> url, version |-> <<"H">>, headers |-> headers,
     body |-> <<>>]

Post(url, headers, body) ==
    [method |-> <<"P">>, url |-> url, version |-> <<"H">>,
     headers |-> <<ContentLength(Len(body))>> \o headers, body |-> body]

KeepAliveGet == Get(<<"/">>, <<ConnectionKeepAlive>>)
KeepAlivePost == Post(<<"/", "a">>, <<ConnectionKeepAlive>>, <<"u", "v">>)

\* Keep-alive requests for files that exist: "/" and "/a"; the second with a body.
KeepAliveReadable == {KeepAliveGet, KeepAlivePost}

\* Others: no Connection header; no route ("/b"); a route but no file ("/ab").
OtherRequests ==
    { Get(<<"/", "a">>, <<>>),
      Get(<<"/", "b">>, <<ConnectionKeepAlive>>),
      Get(<<"/", "a", "b">>, <<ConnectionKeepAlive>>) }

\* test_invalid_start_line: a start line of one token.
BadRequest == <<"B", CR, LF, CR, LF>>

MaxStreamLen == 44
MaxSendFault == 1
RecvSize == 1024

Samples ==
    {request_bytes(m) : m \in KeepAliveReadable \cup OtherRequests} \cup {BadRequest}

\* An incomplete tail: nothing, or a request cut inside its start line, its
\* headers or its body.
Tails ==
    {<<>>, Take(request_bytes(KeepAliveGet), 2), Take(request_bytes(KeepAliveGet), 9),
     Take(request_bytes(KeepAlivePost), 26)}

\* At most two requests and a tail, of at most MaxStreamLen bytes in all.
Streams ==
    {s \in {a \o b \o t : a \in Samples \cup {<<>>}, b \in Samples \cup {<<>>}, t \in Tails} :
        s # <<>> /\ Len(s) <= MaxStreamLen}

\* What the clients of the many-connection runs send.
ShortStreams ==
    { request_bytes(KeepAliveGet) \o Take(request_bytes(KeepAliveGet), 2),
      request_bytes(Get(<<"/", "a">>, <<>>)),
      BadRequest }

(***************************************************************************)
(* State                                                                   *)
(***************************************************************************)
\* Two sockets: the one a readiness event is for, and another.
Conns == {1, 2}

VARIABLES
    env,         \* "reliable" | "faulty" | "idle": whether system calls may raise
    loop,        \* "running" | "crashed" | "stopped": Server.start's while loop
    status,      \* per connection: "absent" | "pending" | "open" | "closed"
    registered,  \* per connection: registered with the selector
    buf,         \* per connection: DataProvider._data
    log,         \* per connection: what the handlers did to the socket, in order
    stream,      \* per connection: the bytes its client sends in all
    pos,         \* per connection: how many of them recv has returned
    ev,          \* the last readiness event
    active,      \* server_v1: HTTPSession.active
    pdata,       \* a buffer handed to parse_message alone
    presult,     \* what parse_message returned for it
    uri,         \* a path handed to match_location alone
    matched,     \* what match_location returned for it
    tokens,      \* SimpleConfigParser.tokens: the token stream of a configuration text
    config,      \* what SimpleConfigParser.parse made of it, and self.pos
    cresult      \* what ServerConfig.listen_ports and ServerConfig.routes returned

vars ==
    <<routes, files, env, loop, status, registered, buf, log, stream, pos, ev, active,
      pdata, presult, uri, matched, tokens, config, cresult>>

\* A readiness event: the connection, the handler ("accept" | "read"),
\* whether recv returned bytes, the buffer the drain loop started from (the
\* buffer as it was when recv returned none), the length of the connection's
\* log before the event, and how the handler ended.
NoEvent ==
    [conn |-> 0, kind |-> "none", data |-> FALSE, input |-> <<>>, start |-> 0,
     end |-> "none"]
Event(c, kind, data, input, start, end) ==
    [conn |-> c, kind |-> kind, data |-> data, input |-> input, start |-> start,
     end |-> end]

\* match_location and the ServerConfig accessors have not been called.
NoMatch == [called |-> FALSE, value |-> None]
NoAccess == [called |-> FALSE]

\* What parse_message returned, and how many calls were made so far.
NoResult == [kind |-> "none", message |-> NoMessage, consumed |-> 0, calls |-> 0]

Min2(a, b) == IF a < b THEN a ELSE b

(***************************************************************************)
(* server_v3: the event loop                                               *)
(***************************************************************************)
\* Server._accept_connection: accept, DataProvider(), selector.register.
_accept_connection(c) ==
    /\ loop = "running"
    /\ status[c] = "pending"
    /\ status' = [status EXCEPT ![c] = "open"]
    /\ registered' = [registered EXCEPT ![c] = TRUE]
    /\ buf' = [buf EXCEPT ![c] = <<>>]
    /\ ev' = Event(c, "accept", FALSE, <<>>, Len(log[c]), "none")
    /\ UNCHANGED <<tokens, routes, files, uri, matched, config, cresult, env, loop, log, stream, pos, active, pdata, presult>>

\* Variant of Inputs for a server that reads one connection at a time: no
\* socket is served while another open one has sent nothing yet or has an
\* unfinished request in its buffer.
Inputs_blocking(c) ==
    IF \E d \in Conns \ {c} : status[d] = "open" /\ (pos[d] = 0 \/ buf[d] # <<>>)
      THEN {}
      ELSE {[fault |-> NoFault, k |-> k] : k \in 1..Min2(RecvSize, Len(stream[c]) - pos[c])}

\* What one readiness event of connection c can meet: a fault and, for a read
\* that returns data, the number of bytes recv returns.  A client of the
\* "idle" environment never shuts its side down.
Inputs(c) ==
    (IF env = "idle" THEN {} ELSE {[fault |-> [NoFault EXCEPT !.recv = "empty"], k |-> 0]})
    \cup {[fault |-> [NoFault EXCEPT !.send = s, !.send404 = b], k |-> k] :
            s \in IF env # "faulty" THEN {0} ELSE 0..MaxSendFault,
            b \in IF env # "faulty" THEN {FALSE} ELSE BOOLEAN,
            k \in 1..Min2(RecvSize, Len(stream[c]) - pos[c])}
    \cup IF env # "faulty" THEN {}
         ELSE {[fault |-> [NoFault EXCEPT !.getpeername = TRUE], k |-> 0]}
              \cup {[fault |-> [NoFault EXCEPT !.recv = r], k |-> 0] : r \in {"reset", "error"}}

\* An exception leaves Server.start: finally: selector.close(); server_sock.close().
\* The client sockets are not closed.
Crash(c, data, input) ==
    /\ loop' = "crashed"
    /\ registered' = [d \in Conns |-> FALSE]
    /\ ev' = Event(c, "read", data, input, Len(log[c]), "raised")

\* Variant of _service_connection that returns on a read without data and
\* leaves the socket registered and open.
_service_connection_ignoring(c, in) ==
    /\ loop = "running"
    /\ status[c] = "open"
    /\ registered[c]
    /\ IF in.fault.getpeername \/ in.fault.recv = "error"
         THEN /\ Crash(c, FALSE, buf[c])
              /\ UNCHANGED <<status, buf, log, pos>>
       ELSE IF in.fault.recv \in {"empty", "reset"}
         THEN /\ ev' = Event(c, "read", FALSE, buf[c], Len(log[c]), "no_data")
              /\ UNCHANGED <<loop, buf, pos, log, registered, status>>
       ELSE
         LET chunk == SubSeq(stream[c], pos[c] + 1, pos[c] + in.k)
             input == data_append(buf[c], chunk)
             r == _handle_request(input, <<>>, in.fault, 0)
         IN /\ pos' = [pos EXCEPT ![c] = @ + in.k]
            /\ buf' = [buf EXCEPT ![c] = r.data]
            /\ log' = [log EXCEPT ![c] = @ \o r.log]
            /\ status' = [status EXCEPT ![c] = IF r.open THEN "open" ELSE "closed"]
            /\ IF r.raised
                 THEN Crash(c, TRUE, input)
                 ELSE /\ registered' = [registered EXCEPT ![c] = r.open]
                      /\ ev' = Event(c, "read", TRUE, input, Len(log[c]), r.end)
                      /\ UNCHANGED loop
    /\ UNCHANGED <<tokens, routes, files, uri, matched, config, cresult, env, stream, active, pdata,
                   presult>>

\* Server._service_connection(key, mask) for the socket of connection c.
_service_connection(c, in) ==
    /\ loop = "running"
    /\ status[c] = "open"
    /\ registered[c]
    /\ IF in.fault.getpeername \/ in.fault.recv = "error"
         THEN /\ Crash(c, FALSE, buf[c])
              /\ UNCHANGED <<status, buf, log, pos>>
       ELSE IF in.fault.recv \in {"empty", "reset"}
         THEN /\ log' = [log EXCEPT ![c] = @ \o <<Unregister("no_data"), Close("no_data")>>]
              /\ registered' = [registered EXCEPT ![c] = FALSE]
              /\ status' = [status EXCEPT ![c] = "closed"]
              /\ ev' = Event(c, "read", FALSE, buf[c], Len(log[c]), "no_data")
              /\ UNCHANGED <<loop, buf, pos>>
       ELSE
         LET chunk == SubSeq(stream[c], pos[c] + 1, pos[c] + in.k)
             input == data_append(buf[c], chunk)
             r == _handle_request(input, <<>>, in.fault, 0)
         IN /\ pos' = [pos EXCEPT ![c] = @ + in.k]
            /\ buf' = [buf EXCEPT ![c] = r.data]
            /\ log' = [log EXCEPT ![c] = @ \o r.log]
            /\ status' = [status EXCEPT ![c] = IF r.open THEN "open" ELSE "closed"]
            /\ IF r.raised
                 THEN Crash(c, TRUE, input)
                 ELSE /\ registered' = [registered EXCEPT ![c] = r.open]
                      /\ ev' = Event(c, "read", TRUE, input, Len(log[c]), r.end)
                      /\ UNCHANGED loop
    /\ UNCHANGED <<tokens, routes, files, uri, matched, config, cresult, env, stream, active, pdata, presult>>

\* Server.start: one pass of the for loop over the ready sockets.
Next ==
    \/ \E c \in Conns : _accept_connection(c)
    \/ \E c \in Conns : \E in \in Inputs(c) : _service_connection(c, in)

\* The server after construction: no connection, no event.
ServerAtRest ==
    /\ loop = "running"
    /\ registered = [c \in Conns |-> FALSE]
    /\ buf = [c \in Conns |-> <<>>]
    /\ log = [c \in Conns |-> <<>>]
    /\ pos = [c \in Conns |-> 0]
    /\ ev = NoEvent
    /\ active = TRUE

\* The functions the other specifications call alone are not called.
NoParserCall == pdata = <<>> /\ presult = NoResult
NoMatcherCall == uri = <<>> /\ matched = NoMatch
NoConfigCall ==
    /\ tokens = <<>>
    /\ config = [exc |-> "unparsed", value |-> <<>>, pos |-> 0]
    /\ cresult = NoAccess

InitCommon ==
    /\ ServerAtRest
    /\ NoParserCall
    /\ NoMatcherCall
    /\ NoConfigCall
    /\ routes = Routes
    /\ files = FileSystem

\* Every connection has a client, each sending one of the short streams, and
\* any system call of a handler may raise.
Init ==
    /\ InitCommon
    /\ env = "faulty"
    /\ status = [c \in Conns |-> "pending"]
    /\ stream \in [Conns -> ShortStreams]

Spec == Init /\ [][Next]_vars

\* One client, sending any of the streams; the peer stays until it shuts its
\* side down, and no system call raises.
InitStream ==
    /\ InitCommon
    /\ env = "reliable"
    /\ status = [c \in Conns |-> IF c = 1 THEN "pending" ELSE "absent"]
    /\ \E s \in Streams : stream = [c \in Conns |-> IF c = 1 THEN s ELSE <<>>]

SpecStream == InitStream /\ [][Next]_vars

\* Routing tables and file systems for single requests: a route for "/", a
\* directory named None, an index file under the route's root.
RootRoute == <<[path |-> <<"/">>, root |-> <<"r">>]>>

ServeTables == {Routes, RootRoute, <<>>}

IndexUnder(root, body) == [path |-> root \o IndexUrl, body |-> body]

ServeFiles ==
    { FileSystem,
      FileSystem \cup {IndexUnder(<<"r">>, <<"i">>)},
      {IndexUnder(<<"r">>, <<"i">>)},
      FileSystem \cup {[path |-> <<"N", "o", "n", "e", "/", "b">>, body |-> <<"n">>]} }

Connection(value) == [name |-> <<"C", "n">>, value |-> value]

\* One request each: "/", an unrouted path, and "/a" under the spellings and
\* near misses of the keep-alive token.
ServeRequests ==
    { KeepAliveGet,
      Get(<<"/">>, <<>>),
      Get(<<"/", "b">>, <<ConnectionKeepAlive>>),
      Get(<<"/", "a">>, <<Connection(<<"K", "A">>)>>),
      Get(<<"/", "a">>, <<Connection(<<"k", "a", "x">>)>>),
      Get(<<"/", "a">>, <<Connection(<<"x", "k", "a">>)>>),
      Get(<<"/", "a">>, <<Connection(<<"c">>)>>),
      Get(<<"/", "a">>, <<>>) }

\* One client sending one request, under each table and file system; no
\* system call raises.
InitServe ==
    /\ ServerAtRest
    /\ NoParserCall
    /\ NoMatcherCall
    /\ NoConfigCall
    /\ env = "reliable"
    /\ status = [c \in Conns |-> IF c = 1 THEN "pending" ELSE "absent"]
    /\ \E m \in ServeRequests :
          stream = [c \in Conns |-> IF c = 1 THEN request_bytes(m) ELSE <<>>]
    /\ routes \in ServeTables
    /\ files \in ServeFiles

SpecServe == InitServe /\ [][Next]_vars

\* What the clients of the fair runs send: nothing, a part of a request, one
\* keep-alive request for a readable file, one and the start of another.
LiveStreams ==
    { <<>>,
      Take(request_bytes(KeepAliveGet), 9),
      request_bytes(KeepAliveGet),
      request_bytes(KeepAliveGet) \o Take(request_bytes(KeepAliveGet), 2) }

\* Two clients that stay connected for ever; no system call raises.
InitLive ==
    /\ InitCommon
    /\ env = "idle"
    /\ status = [c \in Conns |-> "pending"]
    /\ stream \in [Conns -> LiveStreams]

\* The socket of connection c is ready: _service_connection(c, in) is
\* enabled for some in.
Ready(c) == loop = "running" /\ status[c] = "open" /\ registered[c] /\ Inputs(c) # {}

\* selector.select returns every ready socket and the for loop of start
\* handles each of them: a pending connection is accepted, a ready socket is
\* served.  The second conjunct is WF_vars(\E in : _service_connection(c, in))
\* written out, with Ready(c) for ENABLED.
Fairness ==
    \A c \in Conns :
        /\ WF_vars(_accept_connection(c))
        /\ \/ []<>(~Ready(c))
           \/ []<><<\E in \in Inputs(c) : _service_connection(c, in)>>_vars

SpecLive == InitLive /\ [][Next]_vars /\ Fairness

\* except KeyboardInterrupt: ...; finally: self.selector.close();
\* server_sock.close().  No client socket is closed by the code; one that
\* nothing refers to any more may be closed by the garbage collector.
KeyboardInterrupt ==
    /\ loop = "running"
    /\ loop' = "stopped"
    /\ registered' = [c \in Conns |-> FALSE]
    /\ \E collected \in SUBSET {c \in Conns : status[c] = "open"} :
          status' = [c \in Conns |-> IF c \in collected THEN "closed" ELSE status[c]]
    /\ ev' = Event(0, "interrupt", FALSE, <<>>, 0, "stopped")
    /\ UNCHANGED <<tokens, routes, files, uri, matched, config, cresult, env, buf, log, stream, pos,
                   active, pdata, presult>>

NextInterrupt == Next \/ KeyboardInterrupt

\* The server of the fair runs, interrupted at any moment.
SpecInterrupt == InitLive /\ [][NextInterrupt]_vars

(***************************************************************************)
(* server_v1: HTTPSession.handle, Server.start                             *)
(***************************************************************************)
RECURSIVE handle_requests(_, _, _, _, _)

\* except Exception as e: self._send_404(); the inner loop goes on.
handle_404(data, ops, fault, sends, act) ==
    IF fault.send404
      THEN Result(data, ops \o <<Send("404", Response404, FALSE)>>, act, TRUE, "raised")
      ELSE handle_requests(data, ops \o <<Send("404", Response404, TRUE)>>, fault, sends, act)

\* Lines 116-132: the try block; act is self.active after the keep-alive test.
handle_respond(got, path, ops, fault, sends, act) ==
    IF ~readable(path) THEN handle_404(got.data, ops, fault, sends, act)
    ELSE IF fault.send = sends + 1
      THEN handle_404(got.data,
                      ops \o <<Send("200",
                                    Response200(read(path), keep_alive(got.message)),
                                    FALSE)>>,
                      fault, sends + 1, act /\ keep_alive(got.message))
    ELSE handle_requests(got.data,
                         ops \o <<Send("200",
                                       Response200(read(path), keep_alive(got.message)),
                                       TRUE)>>,
                         fault, sends + 1, act /\ keep_alive(got.message))

handle_body(got, ops, fault, sends, act) ==
    IF ~got.some THEN Result(got.data, ops, act, FALSE, got.raised)
    ELSE handle_respond(got, file_path(got.message.url),
                        ops \o <<Request(got.message, got.consumed)>>, fault, sends, act)

\* Lines 104-132: while request := self.http_processor.get_one_http_message().
\* The result's `open` is self.active when the loop ends.
handle_requests(data, ops, fault, sends, act) ==
    handle_body(get_one_http_message(data), ops, fault, sends, act)

\* Server.start: conn, addr = s.accept(); HTTPSession(...).  One session at a
\* time: handle() returns before the next accept.
start(c) ==
    /\ loop = "running"
    /\ status[c] = "pending"
    /\ \A d \in Conns : status[d] # "open"
    /\ status' = [status EXCEPT ![c] = "open"]
    /\ buf' = [buf EXCEPT ![c] = <<>>]
    /\ active' = TRUE
    /\ ev' = Event(c, "accept", FALSE, <<>>, Len(log[c]), "none")
    /\ UNCHANGED <<tokens, routes, files, uri, matched, config, cresult, env, loop, registered, log, stream, pos, pdata, presult>>

\* HTTPSession.handle: one pass of `while self.active:`, from the blocking
\* recv to the loop test; connection.close() follows when the loop ends.
handle(c, in) ==
    /\ loop = "running"
    /\ status[c] = "open"
    /\ active
    /\ ~in.fault.getpeername
    /\ IF in.fault.recv \in {"reset", "error"}
         THEN /\ loop' = "crashed"
              /\ ev' = Event(c, "read", FALSE, buf[c], Len(log[c]), "raised")
              /\ UNCHANGED <<status, buf, log, pos, active>>
       ELSE IF in.fault.recv = "empty"
         THEN /\ log' = [log EXCEPT ![c] = @ \o <<Close("no_data")>>]
              /\ status' = [status EXCEPT ![c] = "closed"]
              /\ ev' = Event(c, "read", FALSE, buf[c], Len(log[c]), "no_data")
              /\ UNCHANGED <<loop, buf, pos, active>>
       ELSE
         LET chunk == SubSeq(stream[c], pos[c] + 1, pos[c] + in.k)
             input == data_append(buf[c], chunk)
             r == handle_requests(input, <<>>, in.fault, 0, TRUE)
             ended == ~r.open /\ ~r.raised
         IN /\ pos' = [pos EXCEPT ![c] = @ + in.k]
            /\ buf' = [buf EXCEPT ![c] = r.data]
            /\ log' = [log EXCEPT ![c] =
                          @ \o r.log \o IF ended THEN <<Close("not_active")>> ELSE <<>>]
            /\ status' = [status EXCEPT ![c] = IF ended THEN "closed" ELSE "open"]
            /\ active' = r.open
            /\ loop' = IF r.raised THEN "crashed" ELSE "running"
            /\ ev' = Event(c, "read", TRUE, input, Len(log[c]),
                           IF ended THEN "not_active" ELSE r.end)
    /\ UNCHANGED <<tokens, routes, files, uri, matched, config, cresult, env, registered, stream, pdata, presult>>

NextV1 ==
    \/ \E c \in Conns : start(c)
    \/ \E c \in Conns : \E in \in Inputs(c) : handle(c, in)

SpecV1 == InitStream /\ [][NextV1]_vars

\* One session for one request, under each table and file system.
SpecV1Serve == InitServe /\ [][NextV1]_vars

(***************************************************************************)
(* parse_message alone, called again on the remainder                      *)
(***************************************************************************)
\* Well-formed requests: the samples, a Content-Length of 0, upper-case
\* header names and values, a second header after the body length.
WellFormed ==
    KeepAliveReadable \cup OtherRequests
    \cup { Post(<<"/">>, <<>>, <<>>),
           Get(<<"/", "a">>, <<[name |-> <<"C", "N">>, value |-> <<"K", "A">>]>>),
           Post(<<"/", "a">>, <<[name |-> <<"X">>, value |-> <<"a", SP, "b">>]>>, <<"u">>) }

\* What may follow a message in a buffer.
Trailing ==
    { <<>>, <<"G">>, CRLF, HeaderTerminator, BadRequest, <<"u", "v">>,
      request_bytes(KeepAliveGet), Take(request_bytes(KeepAlivePost), 26),
      request_bytes(Get(<<"/", "a">>, <<>>)) \o <<"G", SP>> }

Prefixes(s) == {Take(s, n) : n \in 0..Len(s)}

\* A header block as it is on the wire: a start line, header lines, the blank
\* line, and whatever follows.
Block(start_line, header_lines, rest) ==
    start_line \o CRLF \o Flatten([i \in 1..Len(header_lines) |-> header_lines[i] \o CRLF])
    \o CRLF \o rest

\* Blocks the specification calls invalid (test_invalid_start_line,
\* test_invalid_header_line, test_invalid_content_length): a start line of 1, 2
\* or 4 tokens, a header line without a colon, a Content-Length that is not a
\* non-negative integer; some declare or carry a body that has not arrived.
Malformed ==
    { Block(<<"B">>, <<>>, <<>>),
      Block(<<"G", SP, "/">>, <<>>, <<>>),
      Block(<<"G", SP, "/", SP, "H", SP, "x">>, <<>>, <<>>),
      Block(<<>>, <<>>, <<>>),
      Block(<<"B">>, <<<<"C", "l", COLON, SP, "9">>>>, <<"u">>),
      Block(<<"G", SP, "/", SP, "H">>, <<<<"X">>>>, <<>>),
      Block(<<"G", SP, "/", SP, "H">>, <<<<"C", "l", COLON, SP, "9">>, <<"X">>>>, <<"u">>),
      Block(<<"P", SP, "/", SP, "H">>, <<<<"C", "l", COLON, SP, "a">>>>, <<"u", "v">>),
      Block(<<"P", SP, "/", SP, "H">>, <<<<"C", "l", COLON, SP, "a">>>>, <<>>),
      Block(<<"P", SP, "/", SP, "H">>, <<<<"C", "l", COLON, SP, "-", "1">>>>, <<>>),
      Block(<<"P", SP, "/", SP, "H">>, <<<<"C", "L", COLON, SP, "1", "x">>>>, <<"u">>),
      Block(<<"P", SP, "/", SP, "H">>, <<<<"C", "l", COLON>>>>, <<>>) }

ParseInputs ==
    {request_bytes(m) \o t : m \in WellFormed, t \in Trailing}
    \cup UNION {Prefixes(request_bytes(m)) : m \in WellFormed}
    \cup {BadRequest}
    \cup {b \o t : b \in Malformed, t \in {<<>>, <<"G">>, request_bytes(KeepAliveGet)}}

\* message, consumed = HTTPParser.parse_message(data)
parse ==
    /\ presult.kind = "none"
    /\ presult' = [kind |-> parse_message(pdata).kind,
                   message |-> parse_message(pdata).message,
                   consumed |-> parse_message(pdata).consumed,
                   calls |-> presult.calls + 1]
    /\ UNCHANGED <<tokens, routes, files, uri, matched, config, cresult, env, loop, status, registered, buf, log, stream, pos, ev, active, pdata>>

\* data = data[consumed:], as the callers and the tests do
remainder ==
    /\ presult.kind = "message"
    /\ pdata' = Drop(pdata, presult.consumed)
    /\ presult' = [NoResult EXCEPT !.calls = presult.calls]
    /\ UNCHANGED <<tokens, routes, files, uri, matched, config, cresult, env, loop, status, registered, buf, log, stream, pos, ev, active>>

NextParse == parse \/ remainder

InitParse ==
    /\ ServerAtRest
    /\ NoMatcherCall
    /\ NoConfigCall
    /\ env = "reliable"
    /\ status = [c \in Conns |-> "absent"]
    /\ stream = [c \in Conns |-> <<>>]
    /\ routes = Routes
    /\ files = FileSystem
    /\ pdata \in ParseInputs
    /\ presult = NoResult

SpecParse == InitParse /\ [][NextParse]_vars

(***************************************************************************)
(* RouteMatcher.match_location alone                                       *)
(***************************************************************************)
MaxRoutes == 3

\* Prefixes of routing tables, the empty one among them, and the root of each.
RoutePaths == {<<>>, <<"/">>, <<"/", "a">>, <<"/", "a", "b">>, <<"/", "b">>}

RootOf(path) ==
    CASE path = <<>> -> <<"e">>
      [] path = <<"/">> -> <<"r">>
      [] path = <<"/", "a">> -> <<"s">>
      [] path = <<"/", "a", "b">> -> <<"t">>
      [] OTHER -> <<"w">>

\* A dict of at most MaxRoutes entries, in every insertion order.
RouteTables ==
    {[i \in 1..Len(ps) |-> [path |-> ps[i], root |-> RootOf(ps[i])]] :
        ps \in {q \in UNION {[1..n -> RoutePaths] : n \in 0..MaxRoutes} :
                   \A i \in 1..Len(q) : \A j \in 1..Len(q) : q[i] = q[j] => i = j}}

Uris ==
    {<<>>, <<"/">>, <<"/", "a">>, <<"/", "a", "b">>, <<"/", "a", "b", "c">>,
     <<"/", "b">>, <<"/", "c">>, <<"a">>, <<"a", "/">>}

\* RouteMatcher.match_location(locations, uri)
match ==
    /\ ~matched.called
    /\ matched' = [called |-> TRUE, value |-> match_location(routes, uri)]
    /\ UNCHANGED <<tokens, routes, files, env, loop, status, registered, buf, log, stream, pos,
                   ev, active, pdata, presult, uri, config, cresult>>

NextRoute == match

InitRoute ==
    /\ ServerAtRest
    /\ NoParserCall
    /\ NoConfigCall
    /\ env = "reliable"
    /\ status = [c \in Conns |-> "absent"]
    /\ stream = [c \in Conns |-> <<>>]
    /\ routes \in RouteTables
    /\ files = FileSystem
    /\ uri \in Uris
    /\ matched = NoMatch

SpecRoute == InitRoute /\ [][NextRoute]_vars

(***************************************************************************)
(* config_parser: SimpleConfigParser._parse_block and ServerConfig         *)
(***************************************************************************)
MaxServers == 2
MaxTokens == 6
DefaultPort == 80

\* The values of a parsed configuration: a str, a list, a dict in insertion
\* order (a sequence of key/value pairs), and the int and None the accessors
\* pass to dict.get.  A str is a sequence of characters; a directive name
\* is a str of one symbol.
Str(word) == [kind |-> "str", val |-> word]
List(elems) == [kind |-> "list", val |-> elems]
Dict(pairs) == [kind |-> "dict", val |-> pairs]
IntValue(n) == [kind |-> "int", val |-> n]
NoneValue == [kind |-> "None", val |-> <<>>]

\* A call that returned v, and a call that raised an exception.
Ok(v) == [exc |-> "", value |-> v]
Raise(exception) == [exc |-> exception, value |-> <<>>]

\* k in d, d[k] and d[k] = v on the pairs of a dict.
has_key(pairs, k) == \E i \in 1..Len(pairs) : pairs[i].key = k
item(pairs, k) == pairs[CHOOSE i \in 1..Len(pairs) : pairs[i].key = k].value
setitem(pairs, k, v) ==
    IF has_key(pairs, k)
    THEN [i \in 1..Len(pairs) |->
             IF pairs[i].key = k THEN [key |-> k, value |-> v] ELSE pairs[i]]
    ELSE Append(pairs, [key |-> k, value |-> v])

\* d.get(k, default): only a dict has the method.
get(d, k, default) ==
    IF d.kind # "dict" THEN Raise("AttributeError")
    ELSE Ok(IF has_key(d.val, k) THEN item(d.val, k) ELSE default)

\* for x in v: the elements of a list, the characters of a str, the keys of
\* a dict.
iter(v) ==
    CASE v.kind = "list" -> Ok(v.val)
      [] v.kind = "str" -> Ok([i \in 1..Len(v.val) |-> Str(<<v.val[i]>>)])
      [] v.kind = "dict" -> Ok([i \in 1..Len(v.val) |-> Str(v.val[i].key)])
      [] OTHER -> Raise("TypeError")

\* if v: None, 0 and the empty str, list and dict are false.
truthy(v) ==
    CASE v.kind = "None" -> FALSE
      [] v.kind = "int" -> v.val # 0
      [] OTHER -> v.val # <<>>

\* int(v) for the words the lexer produces from digits and letters.
int(v) ==
    CASE v.kind = "int" -> Ok(v.val)
      [] v.kind = "str" ->
           IF IsNonNegativeInteger(v.val) THEN Ok(ToInt(v.val)) ELSE Raise("ValueError")
      [] OTHER -> Raise("TypeError")

\* SimpleConfigLexer.tokenize on the lexemes of a text: the braces and the
\* semicolon have a type of their own, every other lexeme is a WORD.
tokenize(lexemes) ==
    [i \in 1..Len(lexemes) |->
        [type |-> CASE lexemes[i] = <<"{">> -> "LBRACE"
                    [] lexemes[i] = <<"}">> -> "RBRACE"
                    [] lexemes[i] = <<";">> -> "SEMICOLON"
                    [] OTHER -> "WORD",
         value |-> lexemes[i]]]

\* A result together with self.pos, the number of tokens consumed.
AtPos(r, p) == [exc |-> r.exc, value |-> r.value, pos |-> p]

\* A directive or unnamed block met again turns the value into a list.
store(pairs, k, v) ==
    IF has_key(pairs, k)
    THEN IF item(pairs, k).kind = "list"
         THEN setitem(pairs, k, List(Append(item(pairs, k).val, v)))
         ELSE setitem(pairs, k, List(<<item(pairs, k), v>>))
    ELSE setitem(pairs, k, v)

\* A block with an argument is filed under its argument: config[key][arg_key].
nest(pairs, k, arg_key, blk) ==
    IF has_key(pairs, k) /\ item(pairs, k).kind # "dict"
    THEN Raise("SyntaxError")
    ELSE Ok(setitem(pairs, k,
                    Dict(setitem(IF has_key(pairs, k) THEN item(pairs, k).val ELSE <<>>,
                                 arg_key, blk))))

\* The value of a simple directive: args[0] if len(args) == 1 else args.
directive_value(args) ==
    IF Len(args) = 1 THEN Str(args[1]) ELSE List([i \in 1..Len(args) |-> Str(args[i])])

\* The inner loop of _parse_block: the arguments of a directive up to its
\* ';' or '{'; the stream ending first is a SyntaxError (while ... else).
RECURSIVE collect_args(_, _, _)
collect_args(toks, p, args) ==
    IF p >= Len(toks) THEN AtPos(Raise("SyntaxError"), p)
    ELSE IF toks[p + 1].type \in {"LBRACE", "SEMICOLON"}
    THEN AtPos(Ok([args |-> args, end |-> toks[p + 1].type]), p)
    ELSE IF toks[p + 1].type # "WORD" THEN AtPos(Raise("SyntaxError"), p)
    ELSE collect_args(toks, p + 1, Append(args, toks[p + 1].value))

RECURSIVE _parse_block(_, _, _)
RECURSIVE parse_directive(_, _, _, _)
RECURSIVE parse_nested(_, _, _, _, _)

\* After the recursive call for `key args { ... }` returned blk.
parse_nested(toks, key, args, blk, pairs) ==
    IF blk.exc # "" THEN blk
    ELSE IF args = <<>>
    THEN _parse_block(toks, blk.pos, store(pairs, key, blk.value))
    ELSE IF nest(pairs, key, args[1], blk.value).exc # ""
    THEN AtPos(Raise("SyntaxError"), blk.pos)
    ELSE _parse_block(toks, blk.pos, nest(pairs, key, args[1], blk.value).value)

\* After the arguments of `key` were collected up to the token at a.pos.
parse_directive(toks, key, a, pairs) ==
    IF a.exc # "" THEN a
    ELSE IF a.value.end = "SEMICOLON"
    THEN _parse_block(toks, a.pos + 1, store(pairs, key, directive_value(a.value.args)))
    ELSE IF Len(a.value.args) > 1 THEN AtPos(Raise("SyntaxError"), a.pos)
    ELSE parse_nested(toks, key, a.value.args, _parse_block(toks, a.pos + 1, <<>>), pairs)

\* SimpleConfigParser._parse_block from self.pos = p, with the entries
\* the block has so far.
_parse_block(toks, p, pairs) ==
    IF p >= Len(toks) THEN AtPos(Ok(Dict(pairs)), p)
    ELSE IF toks[p + 1].type = "RBRACE" THEN AtPos(Ok(Dict(pairs)), p + 1)
    ELSE IF toks[p + 1].type # "WORD" THEN AtPos(Raise("SyntaxError"), p)
    ELSE parse_directive(toks, toks[p + 1].value, collect_args(toks, p + 1, <<>>), pairs)

\* ServerConfig.get_servers
get_servers(config_dict) ==
    IF get(config_dict, <<"http">>, Dict(<<>>)).exc # ""
    THEN get(config_dict, <<"http">>, Dict(<<>>))
    ELSE IF get(get(config_dict, <<"http">>, Dict(<<>>)).value, <<"server">>, List(<<>>)).exc # ""
    THEN get(get(config_dict, <<"http">>, Dict(<<>>)).value, <<"server">>, List(<<>>))
    ELSE IF get(get(config_dict, <<"http">>, Dict(<<>>)).value, <<"server">>, List(<<>>)).value.kind = "dict"
    THEN Ok(<<get(get(config_dict, <<"http">>, Dict(<<>>)).value, <<"server">>, List(<<>>)).value>>)
    ELSE iter(get(get(config_dict, <<"http">>, Dict(<<>>)).value, <<"server">>, List(<<>>)).value)

\* ServerConfig.listen_ports: the loop over the server blocks.
RECURSIVE listen_ports_loop(_, _)
listen_ports_loop(servers, ports) ==
    IF servers = <<>> THEN Ok(ports)
    ELSE IF get(Head(servers), <<"listen">>, NoneValue).exc # ""
    THEN get(Head(servers), <<"listen">>, NoneValue)
    ELSE IF ~truthy(get(Head(servers), <<"listen">>, NoneValue).value)
    THEN listen_ports_loop(Tail(servers), ports)
    ELSE IF int(get(Head(servers), <<"listen">>, NoneValue).value).exc # ""
    THEN int(get(Head(servers), <<"listen">>, NoneValue).value)
    ELSE listen_ports_loop(Tail(servers),
                           Append(ports, int(get(Head(servers), <<"listen">>, NoneValue).value).value))

listen_ports(config_dict) ==
    IF get_servers(config_dict).exc # "" THEN get_servers(config_dict)
    ELSE listen_ports_loop(get_servers(config_dict).value, <<>>)

\* for path, inner in loc.items(): route_map[path] = inner["root"]
RECURSIVE items_loop(_, _)
items_loop(pairs, route_map) ==
    IF pairs = <<>> THEN route_map
    ELSE items_loop(Tail(pairs),
                    IF /\ Head(pairs).value.kind = "dict"
                       /\ has_key(Head(pairs).value.val, <<"root">>)
                    THEN setitem(route_map, Head(pairs).key,
                                 item(Head(pairs).value.val, <<"root">>))
                    ELSE route_map)

\* for loc in locations: only a dict has items().
RECURSIVE locations_loop(_, _)
locations_loop(locations, route_map) ==
    IF locations = <<>> THEN Ok(route_map)
    ELSE IF Head(locations).kind # "dict" THEN Raise("AttributeError")
    ELSE locations_loop(Tail(locations), items_loop(Head(locations).val, route_map))

\* The route map of one server block.
server_routes(locations) ==
    IF locations.kind = "dict" THEN locations_loop(<<locations>>, <<>>)
    ELSE IF iter(locations).exc # "" THEN iter(locations)
    ELSE locations_loop(iter(locations).value, <<>>)

\* ServerConfig.routes: the loop over the server blocks.
RECURSIVE routes_loop(_, _)
routes_loop(servers, mapping) ==
    IF servers = <<>> THEN Ok(mapping)
    ELSE IF get(Head(servers), <<"listen">>, IntValue(DefaultPort)).exc # ""
    THEN get(Head(servers), <<"listen">>, IntValue(DefaultPort))
    ELSE IF int(get(Head(servers), <<"listen">>, IntValue(DefaultPort)).value).exc # ""
    THEN int(get(Head(servers), <<"listen">>, IntValue(DefaultPort)).value)
    ELSE IF server_routes(get(Head(servers), <<"location">>, Dict(<<>>)).value).exc # ""
    THEN server_routes(get(Head(servers), <<"location">>, Dict(<<>>)).value)
    ELSE routes_loop(Tail(servers),
                     setitem(mapping,
                             int(get(Head(servers), <<"listen">>, IntValue(DefaultPort)).value).value,
                             server_routes(get(Head(servers), <<"location">>, Dict(<<>>)).value).value))

ServerConfig_routes(config_dict) ==
    IF get_servers(config_dict).exc # "" THEN get_servers(config_dict)
    ELSE routes_loop(get_servers(config_dict).value, <<>>)

\* self.config.routes[self.config.listen_ports[0]]: the routes are computed
\* first, then the ports, then the first port is looked up.
bound_routes(table, ports) ==
    IF table.exc # "" THEN table
    ELSE IF ports.exc # "" THEN ports
    ELSE IF ports.value = <<>> THEN Raise("IndexError")
    ELSE IF ~has_key(table.value, ports.value[1]) THEN Raise("KeyError")
    ELSE Ok(item(table.value, ports.value[1]))

\* The configuration texts: an http block of at most MaxServers server
\* blocks, or one server block at the top level.  A server block has at most
\* one listen directive (without a port, with one, with a word that is no
\* number, with two arguments) followed by its location directives.
ListenParts ==
    {<<>>} \cup
    {<<<<"listen">>>> \o a \o <<<<";">>>> :
        a \in {<<>>, <<<<"8", "1">>>>, <<<<"8", "2">>>>, <<<<"x">>>>,
               <<<<"8", "1">>, <<"d">>>>}}

Location(path) ==
    <<<<"location">>, path, <<"{">>, <<"root">>, RootOf(path), <<";">>, <<"}">>>>

LocationParts ==
    { <<>>,
      Location(<<"/">>),
      Location(<<"/">>) \o Location(<<"/", "a">>),
      <<<<"location">>, <<"{">>, <<"root">>, RootOf(<<"/">>), <<";">>, <<"}">>>>,
      <<<<"location">>, <<"/", "a">>, <<";">>>> }

ServerBlocks ==
    {<<<<"server">>, <<"{">>>> \o l \o p \o <<<<"}">>>> :
        l \in ListenParts, p \in LocationParts}

ConfigTexts ==
    LET bodies == UNION {[1..n -> ServerBlocks] : n \in 1..MaxServers}
    IN {<<<<"http">>, <<"{">>>> \o Flatten(b) \o <<<<"}">>>> : b \in bodies}
         \cup ServerBlocks

\* Every text of at most MaxTokens lexemes: well formed, unterminated,
\* with a stray or a missing brace.
ShortTexts ==
    UNION {[1..n -> {<<"a">>, <<"1">>, <<"{">>, <<"}">>, <<";">>}] : n \in 0..MaxTokens}

\* load_config: lexer, then parser.
load_config ==
    /\ config.exc = "unparsed"
    /\ config' = _parse_block(tokens, 0, <<>>)
    /\ UNCHANGED <<tokens, routes, files, env, loop, status, registered, buf, log, stream,
                   pos, ev, active, pdata, presult, uri, matched, cresult>>

\* Server.start reads listen_ports[0] and _handle_request looks the routes of
\* that port up.
access ==
    /\ config.exc = ""
    /\ ~cresult.called
    /\ cresult' = [called |-> TRUE,
                   ports |-> listen_ports(config.value),
                   routes |-> ServerConfig_routes(config.value),
                   lookup |-> bound_routes(ServerConfig_routes(config.value),
                                           listen_ports(config.value))]
    /\ UNCHANGED <<tokens, routes, files, env, loop, status, registered, buf, log, stream, pos,
                   ev, active, pdata, presult, uri, matched, config>>

NextConfig == load_config \/ access

InitConfig ==
    /\ ServerAtRest
    /\ NoParserCall
    /\ NoMatcherCall
    /\ env = "reliable"
    /\ status = [c \in Conns |-> "absent"]
    /\ stream = [c \in Conns |-> <<>>]
    /\ routes = Routes
    /\ files = FileSystem
    /\ tokens \in {tokenize(t) : t \in ConfigTexts \cup ShortTexts}
    /\ config = [exc |-> "unparsed", value |-> <<>>, pos |-> 0]
    /\ cresult = NoAccess

SpecConfig == InitConfig /\ [][NextConfig]_vars

(***************************************************************************)
(* Properties                                                              *)
(***************************************************************************)
\* The responses a socket was given, in order (the sendall calls that returned).
Written(l) == SelectSeq(l, LAMBDA e : e.op = "send" /\ e.ok)

\* The part of the event's connection's log the last event added.
EventLog == SubSeq(log[ev.conn], ev.start + 1, Len(log[ev.conn]))

\* C1: server_v3 answers a complete request that has no keep-alive and whose
\* file is readable with the full 200 response (status line, Content-Length,
\* Content-Type, blank line, body), and only then unregisters and closes the
\* socket.
C1_ResponseThenClose ==
    \A c \in Conns : \A i \in 1..Len(log[c]) :
        (/\ log[c][i].op = "request"
         /\ ~log[c][i].ka
         /\ readable(file_path(log[c][i].url)))
        => /\ Len(log[c]) >= i + 3
           /\ log[c][i + 1] =
                 Send("200", Response200(read(file_path(log[c][i].url)), FALSE), TRUE)
           /\ log[c][i + 2].op = "unregister"
           /\ log[c][i + 3].op = "close"

\* C2: server_v3 leaves the connection open and registered after the response
\* to a keep-alive request has been sent, be it the 200 or the 404: the
\* request's response is written and the handler does not go on to
\* unregister and close the socket.
C2_KeepAliveStaysOpen ==
    \A c \in Conns : \A i \in 1..Len(log[c]) :
        (log[c][i].op = "request" /\ log[c][i].ka)
        => /\ Len(log[c]) >= i + 1
           /\ log[c][i + 1].op = "send"
           /\ log[c][i + 1].ok
           /\ Len(log[c]) >= i + 2
                => log[c][i + 2].site \notin {"except", "not_keepalive"}

\* C3: when the drain loop of a readiness event ends on InvalidMessage, the
\* socket is unregistered and closed in that event.
C3_InvalidIsTerminal ==
    (ev.kind = "read" /\ ev.end = "invalid")
    => (status[ev.conn] = "closed" /\ ~registered[ev.conn])

\* C4: no failure of a call made for one client connection (getpeername, recv,
\* sendall) ends the event loop.
C4_LoopSurvives == loop = "running"

\* C5: once a request without keep-alive has been handled, no request behind
\* it in the same connection is parsed or answered.
C5_NothingAfterClose ==
    \A c \in Conns : \A i \in 1..Len(log[c]) : \A j \in 1..Len(log[c]) :
        (log[c][i].op = "request" /\ ~log[c][i].ka /\ j > i)
        => log[c][j].op \notin {"request", "send"} \/ (j = i + 1 /\ log[c][j].op = "send")

\* The requests of KeepAliveReadable and what each is answered with.
ExpectedBody(m) == IF m.url = <<"/">> THEN <<"x", "y">> ELSE <<"z">>

\* The proper prefixes of the well-formed requests.
IncompleteTails ==
    UNION {{Take(request_bytes(m), n) : n \in 0..(Len(request_bytes(m)) - 1)} :
              m \in KeepAliveReadable \cup OtherRequests}

\* One or two keep-alive requests for readable files.
KeepAliveRuns ==
    {<<a>> : a \in KeepAliveReadable}
        \cup {<<a, b>> : a \in KeepAliveReadable, b \in KeepAliveReadable}

\* k = 1 or 2 keep-alive requests for readable files, then an incomplete tail.
DrainCases ==
    {[input |-> Flatten([i \in 1..Len(rs) |-> request_bytes(rs[i])]) \o t,
      responses |-> [i \in 1..Len(rs) |->
                        Send("200", Response200(ExpectedBody(rs[i]), TRUE), TRUE)],
      tail |-> t] :
        rs \in KeepAliveRuns, t \in IncompleteTails}

\* C6: when a read leaves the buffer holding k >= 1 complete keep-alive
\* requests for readable files followed by an incomplete tail, that readiness
\* event writes exactly the k responses, in the order of the requests, and the
\* buffer afterwards is exactly the tail.
C6_DrainsEveryCompleteRequest ==
    \A k \in DrainCases :
        (ev.kind = "read" /\ ev.data /\ ev.input = k.input)
        => /\ SelectSeq(EventLog, LAMBDA e : e.op = "send") = k.responses
           /\ buf[ev.conn] = k.tail

C6_Witness ==
    \E k \in DrainCases :
        /\ Len(k.responses) = 2
        /\ k.tail # <<>>
        /\ ev.kind = "read" /\ ev.data /\ ev.input = k.input
        /\ Len(Written(EventLog)) = 2

\* The sum of the consumed counts of the messages get_one_http_message returned.
RECURSIVE Consumed(_)
Consumed(l) ==
    IF l = <<>> THEN 0
    ELSE (IF Head(l).op = "request" THEN Head(l).n ELSE 0) + Consumed(Tail(l))

\* C7: each connection's buffer is the bytes received on that connection, in
\* arrival order, without a prefix whose length is the sum of the consumed
\* counts of the messages returned so far (nothing is removed otherwise).
C7_BufferIsReceivedSuffix ==
    \A c \in Conns :
        /\ Consumed(log[c]) <= pos[c]
        /\ buf[c] = Drop(Take(stream[c], pos[c]), Consumed(log[c]))

C7_Witness ==
    \E c \in Conns : \E d \in Conns :
        /\ c # d
        /\ status[c] = "open" /\ status[d] = "open"
        /\ Consumed(log[c]) > 0
        /\ buf[c] # <<>>
        /\ buf[d] # <<>>
        /\ buf[c] # buf[d]

\* The stream delivered by one recv into an empty buffer.
Whole(s) == _handle_request(data_append(<<>>, s), <<>>, NoFault, 0)

\* C8: however a connection's stream is split into recv chunks, once all of
\* it has been delivered (or the server has closed the socket) the responses
\* written and the open/closed state are those of delivering it in one chunk.
C8_SplitIndependent ==
    \A c \in Conns :
        (/\ status[c] \in {"open", "closed"}
         /\ \A i \in 1..Len(log[c]) : log[c][i].site # "no_data"
         /\ pos[c] = Len(stream[c]) \/ status[c] = "closed")
        => /\ Written(log[c]) = Written(Whole(stream[c]).log)
           /\ (status[c] = "open") = Whole(stream[c]).open

C8_Witness ==
    /\ ev.kind = "read" /\ ev.data /\ ev.start > 0
    /\ pos[ev.conn] = Len(stream[ev.conn])
    /\ status[ev.conn] = "open"
    /\ Len(Written(log[ev.conn])) = 2
    /\ buf[ev.conn] # <<>>

\* What parse_message returns for the bytes of m: the header names lower-cased.
Parsed(m) ==
    [m EXCEPT !.headers =
        [i \in 1..Len(m.headers) |->
            [name |-> lower(m.headers[i].name), value |-> m.headers[i].value]]]

\* C9: for a buffer that starts with a complete message m, whatever follows,
\* parse_message returns m and the byte length of m alone; parsing the
\* remainder then gives the next message, or IncompleteMessage for a part.
C9_ConsumesOneMessage ==
    /\ \A m \in WellFormed :
          (presult.kind # "none" /\ startswith(pdata, request_bytes(m)))
          => /\ presult.kind = "message"
             /\ presult.message = Parsed(m)
             /\ presult.consumed = Len(request_bytes(m))
    /\ (presult.kind # "none" /\ presult.calls >= 2 /\ pdata \in IncompleteTails)
       => presult.kind = "incomplete"

C9_Witness ==
    /\ presult.calls = 2
    /\ presult.kind = "message"
    /\ presult.message = Parsed(KeepAliveGet)
    /\ Len(pdata) = presult.consumed

\* C10: parse_message signals IncompleteMessage for every proper prefix of a
\* well-formed request and returns the message for the whole of it.
C10_IncompleteUntilWhole ==
    \A m \in WellFormed :
        (presult.kind # "none" /\ presult.calls = 1)
        => /\ (startswith(request_bytes(m), pdata) /\ pdata # request_bytes(m))
                => presult.kind = "incomplete"
           /\ pdata = request_bytes(m)
                => (presult.kind = "message" /\ presult.message = Parsed(m))

C10_Witness ==
    /\ presult.calls = 1
    /\ presult.kind = "incomplete"
    /\ pdata = Take(request_bytes(KeepAlivePost), 26)

\* C11: for a buffer that holds the header terminator, parse_message signals
\* InvalidMessage, and neither IncompleteMessage nor a message, when the
\* start line is not three tokens, a header line has no colon, or the
\* Content-Length is not a non-negative integer, whether or not the body
\* bytes that follow are as many as a declared length.
C11_MalformedIsInvalid ==
    \A b \in Malformed :
        (presult.calls = 1 /\ presult.kind # "none" /\ startswith(pdata, b))
        => presult.kind = "invalid"

C11_Witness ==
    /\ presult.calls = 1
    /\ presult.kind = "invalid"
    /\ pdata = Block(<<"G", SP, "/", SP, "H">>,
                     <<<<"C", "l", COLON, SP, "9">>, <<"X">>>>, <<"u">>)

\* The entries of the table whose prefix is a literal prefix of the path.
Matching == {i \in 1..Len(routes) : startswith(uri, routes[i].path)}

\* C12: match_location returns the root of the entry whose prefix is a literal
\* prefix of the path and is strictly longer than every other matching
\* prefix, and None exactly when no entry's prefix is a prefix of the path.
C12_LongestPrefixWins ==
    matched.called
    => /\ (matched.value = None) <=> (Matching = {})
       /\ Matching # {}
            => \E i \in Matching :
                  /\ \A j \in Matching \ {i} : Len(routes[j].path) < Len(routes[i].path)
                  /\ matched.value = Some(routes[i].root)

C12_Witness ==
    /\ matched.called
    /\ Len(routes) = 3
    /\ routes[1].path = <<"/", "a">>
    /\ routes[2].path = <<"/", "a", "b">>
    /\ routes[3].path = <<"/">>
    /\ uri = <<"/", "a", "b", "c">>
    /\ matched.value = Some(<<"t">>)

\* The root route resolution gives for "/index.html", the default without one.
IndexRoot ==
    IF match_location(routes, IndexUrl) = None THEN DefaultRoot
    ELSE match_location(routes, IndexUrl).value

\* C13: a request for "/" is rewritten to "/index.html" and resolved on the
\* routing table, the default root "html" serving only when no route
\* matches: with a route for "/" whose root is R, what is written for the
\* request is the 200 response with the contents of R + "/index.html".
C13_IndexUnderRoute ==
    \A c \in Conns : \A i \in 1..Len(log[c]) :
        (/\ log[c][i].op = "request"
         /\ log[c][i].url = <<"/">>
         /\ log[c][i].ka
         /\ readable(IndexRoot \o IndexUrl))
        => /\ Len(log[c]) > i
           /\ log[c][i + 1] =
                 Send("200", Response200(read(IndexRoot \o IndexUrl), TRUE), TRUE)

\* C14: a request whose path matches no route prefix is answered with the 404
\* response, and no file content is served for it, whatever files exist.
C14_NoRouteIs404 ==
    \A c \in Conns : \A i \in 1..Len(log[c]) :
        (/\ log[c][i].op = "request"
         /\ log[c][i].url # <<"/">>
         /\ match_location(routes, log[c][i].url) = None)
        => /\ Len(log[c]) > i
           /\ log[c][i + 1] = Send("404", Response404, TRUE)

\* The spellings of the keep-alive token.
KeepAliveSpellings == {<<"k", "a">>, <<"K", "a">>, <<"k", "A">>, <<"K", "A">>}

\* C16: a request is treated as keep-alive exactly when its Connection header
\* value is the keep-alive token in some spelling of upper and lower case; a
\* longer value that contains the token is not.
C16_KeepAliveIsEquality ==
    \A m \in ServeRequests :
        (/\ stream[1] = request_bytes(m)
         /\ log[1] # <<>>
         /\ log[1][1].op = "request"
         /\ readable(file_path(m.url)))
        => ((/\ log[1][1].ka
             /\ Len(log[1]) >= 2
             /\ log[1][2].op = "send"
             /\ log[1][2].resp.connection = "keep-alive")
              <=> \E i \in 1..Len(m.headers) :
                     /\ m.headers[i].name = <<"C", "n">>
                     /\ m.headers[i].value \in KeepAliveSpellings)

\* The sendall calls made for the request at position i of a connection's log.
Attempts(l, i) ==
    {j \in (i + 1)..Len(l) :
        l[j].op = "send" /\ \A k \in (i + 1)..j : l[k].op # "request"}

\* C15: every parsed request results in exactly one write attempt on its
\* socket: never none, and never a 200 write followed by a 404 write.
C15_OneWriteAttempt ==
    \A c \in Conns : \A i \in 1..Len(log[c]) :
        log[c][i].op = "request" => Cardinality(Attempts(log[c], i)) = 1

\* C17: when a read on a client socket returns no bytes or raises a
\* connection reset, the socket is unregistered and closed in that readiness
\* event and nothing is written; from then on the socket has no event: its
\* log and buffer never change, whatever the buffer still holds.
C17_EndOfStreamCloses ==
    /\ [](ev.kind = "read" /\ ev.end = "no_data"
            => /\ status[ev.conn] = "closed"
               /\ ~registered[ev.conn]
               /\ EventLog = <<Unregister("no_data"), Close("no_data")>>)
    /\ [][\A c \in Conns :
            status[c] = "closed"
            => /\ status'[c] = "closed"
               /\ ~registered'[c]
               /\ log'[c] = log[c]
               /\ buf'[c] = buf[c]]_vars

C17_Witness ==
    /\ ev.kind = "read" /\ ev.end = "no_data"
    /\ status[ev.conn] = "closed"
    /\ buf[ev.conn] = Take(request_bytes(KeepAliveGet), 2)
    /\ Len(Written(log[ev.conn])) = 1
    /\ \E d \in Conns : status[d] = "open"

\* The 200 response to the keep-alive request for "/".
IndexResponse == Send("200", Response200(<<"x", "y">>, TRUE), TRUE)

\* Connection c has been written the response to every request of its stream.
Answered(c) ==
    startswith(stream[c], request_bytes(KeepAliveGet))
    => Written(log[c]) = <<IndexResponse>>

\* C18: under fair delivery of readiness events every complete keep-alive
\* request for a readable file is eventually answered on its connection,
\* whether the other connection is idle, in the middle of a request or busy
\* with requests of its own.
C18_EveryRequestAnswered == <>[](\A c \in Conns : Answered(c))

C18_Witness ==
    \E c \in Conns : \E d \in Conns :
        /\ stream[c] = request_bytes(KeepAliveGet)
        /\ Written(log[c]) = <<IndexResponse>>
        /\ status[d] = "open"
        /\ stream[d] = Take(request_bytes(KeepAliveGet), 9)
        /\ buf[d] = stream[d]

\* C19: when the server is interrupted, the listening socket and every
\* client socket still open at that moment are closed before start returns.
C19_InterruptClosesClients ==
    loop = "stopped" => \A c \in Conns : status[c] # "open"

\* C20: for every parsed configuration, every port ServerConfig.listen_ports
\* returns is a key of ServerConfig.routes, so once a port was read for
\* binding the lookup routes[listen_ports[0]] of a request does not fail.
C20_PortsAreRouteKeys ==
    (cresult.called /\ cresult.ports.exc = "" /\ cresult.ports.value # <<>>) =>
        /\ cresult.routes.exc = ""
        /\ \A i \in 1..Len(cresult.ports.value) :
               has_key(cresult.routes.value, cresult.ports.value[i])
        /\ cresult.lookup.exc = ""

\* How many blocks are open after the first i tokens.
Depth(toks, i) ==
    Cardinality({j \in 1..i : toks[j].type = "LBRACE"})
        - Cardinality({j \in 1..i : toks[j].type = "RBRACE"})

\* Every '}' closes an open block and no block stays open.
Balanced(toks) ==
    /\ \A i \in 1..Len(toks) : Depth(toks, i) >= 0
    /\ Depth(toks, Len(toks)) = 0

\* Where the directives of the top-level block start, and the token that
\* ends the name and arguments of the one starting at i.
Starts(toks) ==
    {i \in 1..Len(toks) :
        /\ toks[i].type = "WORD"
        /\ Depth(toks, i - 1) = 0
        /\ i = 1 \/ toks[i - 1].type \in {"SEMICOLON", "RBRACE"}}

Stop(toks, i) == Min({j \in (i + 1)..Len(toks) : toks[j].type # "WORD"})

Occurrences(toks, k) == {i \in Starts(toks) : toks[i].value = k}

\* C21: when a name occurs n >= 2 times in a block, as a directive or as a
\* block without argument, the value stored under it is a list of exactly n
\* entries.
C21_RepeatedNameIsListOfAll ==
    (config.exc = "" /\ config.pos = Len(tokens) /\ Balanced(tokens)) =>
        \A k \in {tokens[i].value : i \in Starts(tokens)} :
            (/\ Cardinality(Occurrences(tokens, k)) >= 2
             /\ \A i \in Occurrences(tokens, k) :
                    \/ tokens[Stop(tokens, i)].type = "SEMICOLON"
                    \/ Stop(tokens, i) = i + 1)
            => /\ item(config.value.val, k).kind = "list"
               /\ Len(item(config.value.val, k).val) = Cardinality(Occurrences(tokens, k))

\* C22: a token stream that ends after a directive name or its arguments,
\* with no ';' or '{' behind them, makes parse raise SyntaxError.
C22_UnterminatedIsSyntaxError ==
    (config.exc # "unparsed" /\ tokens # <<>> /\ tokens[Len(tokens)].type = "WORD") =>
        config.exc = "SyntaxError"

\* C27: parse returns a result only after consuming every token of a stream
\* whose braces match.
C27_ReturnsOnlyForWholeBalancedStream ==
    config.exc = "" => config.pos = Len(tokens) /\ Balanced(tokens)

\* C23: in server_v1, once the response to a request without keep-alive has
\* been sent, be it 200 or 404, the session loop has ended and the
\* connection is closed; the session does not go back to recv.
C23_NoKeepAliveEndsSession ==
    \A c \in Conns : \A i \in 1..(Len(log[c]) - 1) :
        (/\ log[c][i].op = "request"
         /\ ~log[c][i].ka
         /\ log[c][i + 1].op = "send"
         /\ log[c][i + 1].ok)
        => status[c] = "closed"

\* How many entries of a log are calls of op.
Calls(l, op) == Cardinality({i \in 1..Len(l) : l[i].op = op})

\* C24: while the loop runs, a client socket is registered with the selector
\* exactly when it is open; a socket is unregistered and closed at most once,
\* and after its close nothing is parsed for it or sent on it.
C24_RegisteredIffOpen ==
    /\ loop = "running" =>
          \A c \in Conns :
              /\ registered[c] <=> status[c] = "open"
              /\ status[c] = "closed" <=> Calls(log[c], "close") = 1
    /\ \A c \in Conns :
          /\ Calls(log[c], "unregister") <= 1
          /\ Calls(log[c], "close") <= 1
          /\ \A i \in 1..Len(log[c]) : \A j \in (i + 1)..Len(log[c]) :
                 log[c][i].op \in {"unregister", "close"} =>
                     log[c][j].op \in {"unregister", "close"} /\ log[c][j].op # log[c][i].op

C24_Witness ==
    /\ loop = "running"
    /\ \E c \in Conns : \E d \in Conns :
          /\ status[c] = "closed"
          /\ ~registered[c]
          /\ log[c][Len(log[c])].op = "close"
          /\ log[c][Len(log[c])].site = "not_keepalive"
          /\ status[d] = "open"
          /\ registered[d]
          /\ Calls(log[d], "send") >= 1

\* The tables holding the entries of the routing table in another order.
Reordered ==
    {q \in RouteTables :
        /\ Len(q) = Len(routes)
        /\ {q[i] : i \in 1..Len(q)} = {routes[i] : i \in 1..Len(routes)}}

\* C25: two distinct prefixes of equal length never both match a path, so
\* match_location returns the same root for the same entries in every
\* insertion order.
C25_OrderIndependent ==
    matched.called
    => /\ \A i \in Matching : \A j \in Matching \ {i} :
              Len(routes[i].path) # Len(routes[j].path)
       /\ \A q \in Reordered : match_location(q, uri) = matched.value

C25_Witness ==
    /\ matched.called
    /\ Len(routes) = 3
    /\ routes[1].path = <<"/">>
    /\ routes[2].path = <<"/", "a", "b">>
    /\ routes[3].path = <<"/", "a">>
    /\ uri = <<"/", "a", "b">>
    /\ Cardinality(Matching) = 3
    /\ Cardinality(Reordered) = 6
    /\ matched.value = Some(<<"t">>)

\* The messages get_one_http_message returned during the last event.
Drained == SelectSeq(EventLog, LAMBDA e : e.op = "request")

\* C26: the drain loop of _handle_request ends.  Every message it is given
\* took at least one byte off the buffer, so a buffer of n bytes gives at
\* most n messages, and the loop stops at the first incomplete or invalid
\* message (an empty buffer is incomplete) or when the socket is closed.
C26_DrainLoopEnds ==
    (ev.kind = "read" /\ ev.data) =>
        /\ \A i \in 1..Len(Drained) : Drained[i].n >= 1
        /\ Len(buf[ev.conn]) + Consumed(Drained) = Len(ev.input)
        /\ Len(Drained) <= Len(ev.input)
        /\ ev.end \in {"incomplete", "invalid", "not_keepalive", "except"}
        /\ ev.end \in {"incomplete", "invalid"} => get_one_http_message(buf[ev.conn]).raised = ev.end

C26_Witness ==
    /\ ev.kind = "read" /\ ev.data
    /\ Len(Drained) = 2
    /\ Consumed(Drained) < Len(ev.input)
    /\ ev.end = "incomplete"
    /\ buf[ev.conn] # <<>>

\* HTTPSession.handle of server_v1 given the bytes of the last event in one recv.
Sequential == handle_requests(ev.input, <<>>, NoFault, 0, TRUE)

\* C28: for one connection, the same received bytes and the same files,
\* server_v3 writes the responses server_v1 writes and leaves the connection
\* open exactly when server_v1 does.
C28_SameAsSequential ==
    (ev.kind = "read" /\ ev.data /\ ev.start = 0 /\ ev.input = stream[ev.conn]) =>
        /\ Written(log[ev.conn]) = Written(Sequential.log)
        /\ (status[ev.conn] = "open") <=> Sequential.open

====
